---- MODULE Spec2Model ----
(***************************************************************************)
(* Model of env-bootstrap/src/ringlog.rs: the per-level ring buffers       *)
(* (LevelRing), the ring set behind the RINGS mutex (Rings), the Logger    *)
(* facade, get_entries and setup_logger.                                   *)
(***************************************************************************)
EXTENDS Integers, Sequences, FiniteSets, Bags, TLC

(* ------------------------------------------------------------------ *)
(* Bounds of the model                                                 *)
(* ------------------------------------------------------------------ *)

\* Number of slots LevelRing::new allocates.  The code allocates 16
\* (ringlog.rs:33) and reads the capacity back as self.entries.len()
\* everywhere else, so the ring is modelled for a small capacity.
Cap == 2

\* Total number of Logger::log calls started in one behaviour.
MaxLogs == 2

\* Total number of Rings::log calls in one behaviour of SpecRing.
MaxPushes == 3

\* Total number of setup_logger calls started in one behaviour.
MaxSetups == 2

\* Threads of the process.
Threads == {1, 2}

\* Values Local::now() can return (a wall clock: it may repeat or step back).
Times == {0, 1}

\* Record targets and rendered messages.
Targets == {"x"}
Msgs == {"a", "b"}

(* ------------------------------------------------------------------ *)
(* log::Level and log::LevelFilter                                     *)
(* ------------------------------------------------------------------ *)

Error == 1
Warn  == 2
Info  == 3
Debug == 4
Trace == 5

\* The levels Rings::new creates a ring for.
Levels == {Error, Warn, Info, Debug, Trace}

\* String order (derive(Ord) on Entry compares target and msg as strings).
Strings == <<"", "a", "b", "x">>
StrRank(s) == CHOOSE i \in 1..Len(Strings) : Strings[i] = s

(* ------------------------------------------------------------------ *)
(* Entry                                                               *)
(* ------------------------------------------------------------------ *)

Entry(then, level, target, msg) ==
    [then |-> then, level |-> level, target |-> target, msg |-> msg]

\* derive(Ord, PartialOrd): lexicographic on then, level, target, msg.
Entry_lt(a, b) ==
    \/ a.then < b.then
    \/ a.then = b.then /\ a.level < b.level
    \/ a.then = b.then /\ a.level = b.level
       /\ StrRank(a.target) < StrRank(b.target)
    \/ a.then = b.then /\ a.level = b.level /\ a.target = b.target
       /\ StrRank(a.msg) < StrRank(b.msg)

(* ------------------------------------------------------------------ *)
(* LevelRing                                                           *)
(* ------------------------------------------------------------------ *)

LevelRing_new(level, now) ==
    [entries |-> [i \in 1..Cap |-> Entry(now, level, "", "")],
     first   |-> 0,
     last    |-> 0]

LevelRing_len(r) ==
    IF r.last >= r.first
    THEN r.last - r.first
    ELSE (Len(r.entries) - r.first) + r.last

\* A rolling_inc that wraps one position too late.
rolling_inc_late(r, value) ==
    LET incremented == value + 1
    IN  IF incremented > Len(r.entries) THEN 0 ELSE incremented

rolling_inc(r, value) ==
    LET incremented == value + 1
    IN  IF incremented >= Len(r.entries) THEN 0 ELSE incremented

\* A push that grows the Vec instead of writing a slot.
push_store_grow(r, entry) == [r EXCEPT !.entries = Append(@, entry)]

\* push, lines 68-75: the slot write (and, when full, the advance of first).
push_store(r, entry) ==
    IF LevelRing_len(r) = Len(r.entries)
    THEN [r EXCEPT !.entries[r.first + 1] = entry,
                   !.first = rolling_inc(r, r.first)]
    ELSE [r EXCEPT !.entries[r.last + 1] = entry]

\* An advance of last that does not wrap.
push_advance_no_wrap(r) == [r EXCEPT !.last = r.last + 1]

\* push, line 76: the advance of last.
push_advance(r) == [r EXCEPT !.last = rolling_inc(r, r.last)]

LevelRing_push(r, entry) == push_advance(push_store(r, entry))

\* Slice entries[lo..hi) of a Vec (0-based, half open).
Slice(s, lo, hi) == SubSeq(s, lo + 1, hi)

\* An append_to_vec that yields every slot of the ring.
append_to_vec_all(r, target) == target \o r.entries

append_to_vec(r, target) ==
    IF r.last >= r.first
    THEN target \o Slice(r.entries, r.first, r.last)
    ELSE target \o Slice(r.entries, r.first, Len(r.entries))
                \o Slice(r.entries, 0, r.last)

(* ------------------------------------------------------------------ *)
(* Rings                                                               *)
(* ------------------------------------------------------------------ *)

Rings_new(now) == [level \in Levels |-> LevelRing_new(level, now)]

\* The orders in which HashMap::values may visit the five rings.
Orders == { <<Error, Warn, Info, Debug, Trace>>,
            <<Trace, Debug, Info, Warn, Error>> }

RECURSIVE visit(_, _, _)
visit(rs, ord, results) ==
    IF ord = <<>> THEN results
    ELSE visit(rs, Tail(ord), append_to_vec(rs[Head(ord)], results))

Rings_get_entries(rs, ord) == visit(rs, ord, <<>>)

\* A read that consumes what it returns: every ring is left with first = last.
Rings_after_get_entries_drained(rs) ==
    [l \in DOMAIN rs |-> [rs[l] EXCEPT !.first = rs[l].last]]

\* The rings after Rings::get_entries: it takes &self and append_to_vec
\* takes &self, so nothing of a ring is written.
Rings_after_get_entries(rs) == rs

\* The Entry Rings::log builds from a record at time now.
Rings_log_entry(record, now) ==
    Entry(now, record.level, record.target, record.msg)

\* A Rings::log that looks the ring up under the wrong key.
Rings_log_store_misrouted(rs, record, now) ==
    [rs EXCEPT ![Info] = push_store(@, Rings_log_entry(record, now))]

\* Rings::log up to the slot write of push.
Rings_log_store(rs, record, now) ==
    IF record.level \in DOMAIN rs
    THEN [rs EXCEPT ![record.level] = push_store(@, Rings_log_entry(record, now))]
    ELSE rs

\* Rings::log, the rest of push.
Rings_log_advance(rs, level) ==
    IF level \in DOMAIN rs
    THEN [rs EXCEPT ![level] = push_advance(@)]
    ELSE rs

\* Rings::log as one call.
Rings_log(rs, record, now) ==
    Rings_log_advance(Rings_log_store(rs, record, now), record.level)

(* ------------------------------------------------------------------ *)
(* Vec::sort with Entry's derived order (stable insertion sort)        *)
(* ------------------------------------------------------------------ *)

RECURSIVE insert(_, _)
insert(sorted, e) ==
    IF sorted = <<>> THEN <<e>>
    ELSE IF Entry_lt(e, Head(sorted))
         THEN <<e>> \o sorted
         ELSE <<Head(sorted)>> \o insert(Tail(sorted), e)

RECURSIVE sort(_)
sort(s) ==
    IF s = <<>> THEN <<>>
    ELSE insert(sort(SubSeq(s, 1, Len(s) - 1)), s[Len(s)])

(* ------------------------------------------------------------------ *)
(* Logger and setup                                                    *)
(* ------------------------------------------------------------------ *)

\* LevelFilter::Off ... LevelFilter::Trace are 0..5.
Off == 0

\* Option<Box<dyn log::Log>>: a pretty logger is modelled by its filter.
None == [some |-> FALSE, filter |-> Off]
Some(filter) == [some |-> TRUE, filter |-> filter]

\* No thread holds the mutex.
NoThread == 0
\* A thread that is in no log call has no record.
NoRecord == [level |-> 0, target |-> "", msg |-> ""]
\* A thread that is in no setup_logger call has built nothing.
NoBuilt == [max_level |-> Off, pretty |-> None]
\* The log crate before set_boxed_logger succeeded.
NoLogger == [installed |-> FALSE, pretty |-> None]

\* Filters WEZTERM_LOG can make pretty.filter() return.
Filters == {Info, Trace}

\* setup_pretty: (max_level, pretty); no pretty logger when stderr is absent.
setup_pretty(stderrNull, filter) ==
    IF stderrNull
    THEN [max_level |-> Info, pretty |-> None]
    ELSE [max_level |-> filter, pretty |-> Some(filter)]

Logger_new(pretty) == [installed |-> TRUE, pretty |-> pretty]

\* Targets the builder filters at Error (lines 185-186).
ErrorOnlyTargets == {"wgpu_core", "gfx_backend_metal"}

\* pretty.enabled(metadata): the directive of the record's target decides,
\* the default directive otherwise.
pretty_enabled(pretty, level, target) ==
    level <= (IF target \in ErrorOnlyTargets THEN Error ELSE pretty.filter)

\* An enabled() that answers with the built-in default, sink or no sink.
Logger_enabled_default(lg, level, target) == level \in {Error, Warn, Info}

Logger_enabled(lg, level, target) ==
    IF lg.pretty.some
    THEN pretty_enabled(lg.pretty, level, target)
    ELSE level \in {Error, Warn, Info}

\* No Logger::enabled call has returned yet.
NoEnabled == [some |-> FALSE, level |-> 0, target |-> "", value |-> FALSE]

(* ------------------------------------------------------------------ *)
(* State                                                               *)
(* ------------------------------------------------------------------ *)

VARIABLES
    rings,      \* RINGS: level -> LevelRing
    order,      \* iteration order of the rings HashMap
    lock,       \* holder of the RINGS mutex, NoThread when free
    pc,         \* position of each thread
    rec,        \* the record of the log call a thread is in
    result,     \* the Vec of a thread's get_entries, kept until its next call
    built,      \* (max_level, pretty) a thread's setup_logger built
    logger,     \* the logger installed in the log crate
    maxLevel,   \* log::max_level()
    pushed,     \* per level, the entries pushed so far (history)
    forwarded,  \* number of pretty.log calls made
    poisoned,   \* the RINGS mutex is poisoned
    enabledRet, \* the last Logger::enabled call and what it returned
    nlogs, nsetups

vars == <<rings, order, lock, pc, rec, result, built, logger, maxLevel,
          pushed, forwarded, poisoned, enabledRet, nlogs, nsetups>>

\* RINGS is built on first use, at time 0; no logger is installed and
\* log::max_level() is Off.
Init ==
    /\ rings = Rings_new(0)
    /\ order \in Orders
    /\ lock = NoThread
    /\ pc = [t \in Threads |-> "idle"]
    /\ rec = [t \in Threads |-> NoRecord]
    /\ result = [t \in Threads |-> <<>>]
    /\ built = [t \in Threads |-> NoBuilt]
    /\ logger = NoLogger
    /\ maxLevel = Off
    /\ pushed = [l \in Levels |-> <<>>]
    /\ forwarded = 0
    /\ poisoned = FALSE
    /\ enabledRet = NoEnabled
    /\ nlogs = 0
    /\ nsetups = 0

\* A lock that does not exclude.
Mutex_free_always(l) == TRUE

\* Mutex::lock returns once the mutex is free.
Mutex_free(l) == l = NoThread

\* An unwrap that takes the guard out of a poisoned mutex too.
lock_unwrap_ok_always(p) == TRUE

\* lock().unwrap() (lines 157, 166) yields the guard unless the mutex is
\* poisoned; it panics when it is.
lock_unwrap_ok(p) == ~p

(* ---------------- Logger::log ---------------- *)

\* line 157: RINGS.lock().  The caller no longer holds the Vec of an
\* earlier get_entries.
Logger_log_lock(t, level, target, msg) ==
    /\ pc[t] = "idle"
    /\ logger.installed
    /\ nlogs < MaxLogs
    /\ Mutex_free(lock)
    /\ lock_unwrap_ok(poisoned)
    /\ lock' = t
    /\ rec' = [rec EXCEPT ![t] = [level |-> level, target |-> target, msg |-> msg]]
    /\ pc' = [pc EXCEPT ![t] = "log_store"]
    /\ nlogs' = nlogs + 1
    /\ result' = [result EXCEPT ![t] = <<>>]
    /\ UNCHANGED <<rings, order, built, logger, maxLevel, pushed,
                   forwarded, nsetups,
                   poisoned, enabledRet>>

\* A log that records only what enabled() lets through.
Logger_log_rings_if_enabled(lg, rs, record, now) ==
    IF Logger_enabled(lg, record.level, record.target)
    THEN Rings_log_store(rs, record, now)
    ELSE rs

\* line 157: the record goes to Rings::log whatever enabled() says.
Logger_log_rings(lg, rs, record, now) == Rings_log_store(rs, record, now)

\* line 157 -> Rings::log -> push lines 68-75, under the lock.  The entry
\* built at line 118 joins the history of its level.
Logger_log_store(t, now) ==
    /\ pc[t] = "log_store"
    /\ rings' = Logger_log_rings(logger, rings, rec[t], now)
    /\ pushed' = [pushed EXCEPT ![rec[t].level] =
                      Append(@, Rings_log_entry(rec[t], now))]
    /\ pc' = [pc EXCEPT ![t] = "log_advance"]
    /\ UNCHANGED <<order, lock, rec, result, built, logger, maxLevel,
                   forwarded, nlogs, nsetups,
                   poisoned, enabledRet>>

\* A Logger::log that returns after line 157.
Logger_log_next_never(lg) == "idle"

\* Where Logger::log goes after line 157: to pretty.log when a pretty
\* logger is configured, else it returns.
Logger_log_next(lg) == IF lg.pretty.some THEN "log_pretty" ELSE "idle"

\* push line 76, then the guard of line 157 is dropped
Logger_log_advance(t) ==
    /\ pc[t] = "log_advance"
    /\ rings' = Rings_log_advance(rings, rec[t].level)
    /\ lock' = NoThread
    /\ pc' = [pc EXCEPT ![t] = Logger_log_next(logger)]
    /\ rec' = [rec EXCEPT ![t] = IF Logger_log_next(logger) = "idle"
                                 THEN NoRecord ELSE @]
    /\ UNCHANGED <<order, result, built, logger, maxLevel, pushed,
                   forwarded, nlogs, nsetups,
                   poisoned, enabledRet>>

\* lines 158-160: pretty.log(record)
Logger_log_pretty(t) ==
    /\ pc[t] = "log_pretty"
    /\ forwarded' = forwarded + 1
    /\ pc' = [pc EXCEPT ![t] = "idle"]
    /\ rec' = [rec EXCEPT ![t] = NoRecord]
    /\ UNCHANGED <<rings, order, lock, result, built, logger, maxLevel,
                   pushed, nlogs, nsetups,
                   poisoned, enabledRet>>

(* ---------------- get_entries ---------------- *)

\* line 166: RINGS.lock(); line 109 starts from an empty Vec
get_entries_lock(t) ==
    /\ pc[t] = "idle"
    /\ Mutex_free(lock)
    /\ lock_unwrap_ok(poisoned)
    /\ lock' = t
    /\ pc' = [pc EXCEPT ![t] = "get_read"]
    /\ result' = [result EXCEPT ![t] = <<>>]
    /\ UNCHANGED <<rings, order, rec, built, logger, maxLevel,
                   pushed, forwarded, nlogs, nsetups,
                   poisoned, enabledRet>>

\* line 166: Rings::get_entries under the lock, then the guard is dropped
get_entries_read(t) ==
    /\ pc[t] = "get_read"
    /\ result' = [result EXCEPT ![t] = Rings_get_entries(rings, order)]
    /\ rings' = Rings_after_get_entries(rings)
    /\ lock' = NoThread
    /\ pc' = [pc EXCEPT ![t] = "get_sort"]
    /\ UNCHANGED <<order, rec, built, logger, maxLevel, pushed,
                   forwarded, nlogs, nsetups,
                   poisoned, enabledRet>>

\* A get_entries that returns the Vec as read.
get_entries_unsorted(entries) == entries

\* What get_entries returns from the Vec it read (lines 167-168).
get_entries_sorted(entries) == sort(entries)

get_entries_sort(t) ==
    /\ pc[t] = "get_sort"
    /\ result' = [result EXCEPT ![t] = get_entries_sorted(@)]
    /\ pc' = [pc EXCEPT ![t] = "idle"]
    /\ UNCHANGED <<rings, order, lock, rec, built, logger, maxLevel, pushed,
                   forwarded, nlogs, nsetups,
                   poisoned, enabledRet>>

(* ---------------- faults under the lock ---------------- *)

\* line 157 on a poisoned mutex: unwrap panics, the call unwinds.
Logger_log_lock_poisoned(t, level, target, msg) ==
    /\ pc[t] = "idle"
    /\ logger.installed
    /\ nlogs < MaxLogs
    /\ Mutex_free(lock)
    /\ ~lock_unwrap_ok(poisoned)
    /\ pc' = [pc EXCEPT ![t] = "panicked"]
    /\ nlogs' = nlogs + 1
    /\ result' = [result EXCEPT ![t] = <<>>]
    /\ UNCHANGED <<rings, order, lock, rec, built, logger, maxLevel, pushed,
                   forwarded, poisoned, nsetups, enabledRet>>

\* line 166 on a poisoned mutex: unwrap panics, the call unwinds.
get_entries_lock_poisoned(t) ==
    /\ pc[t] = "idle"
    /\ Mutex_free(lock)
    /\ ~lock_unwrap_ok(poisoned)
    /\ pc' = [pc EXCEPT ![t] = "panicked"]
    /\ result' = [result EXCEPT ![t] = <<>>]
    /\ UNCHANGED <<rings, order, lock, rec, built, logger, maxLevel, pushed,
                   forwarded, poisoned, nlogs, nsetups, enabledRet>>

\* line 122 under the lock of line 157: record.args().to_string() runs the
\* Display code of the caller's arguments, and that code panics.  No Entry
\* is built, the guard is dropped while unwinding and poisons the mutex.
Logger_log_render_panics(t) ==
    /\ pc[t] = "log_store"
    /\ pc' = [pc EXCEPT ![t] = "panicked"]
    /\ rec' = [rec EXCEPT ![t] = NoRecord]
    /\ lock' = NoThread
    /\ poisoned' = TRUE
    /\ UNCHANGED <<rings, order, result, built, logger, maxLevel, pushed,
                   forwarded, nlogs, nsetups, enabledRet>>

\* What Mutex::lock does on the thread that already holds the mutex: the
\* standard library leaves it open between never returning and panicking.
Relock == {"deadlock", "panic"}

\* line 122 under the lock of line 157: the Display code of the caller's
\* arguments itself logs, so Logger::log is entered again on the same thread
\* and line 157 locks RINGS a second time.
Logger_log_render_logs(t, relock) ==
    /\ pc[t] = "log_store"
    /\ lock = t
    /\ IF relock = "panic"
       THEN /\ pc' = [pc EXCEPT ![t] = "panicked"]
            /\ rec' = [rec EXCEPT ![t] = NoRecord]
            /\ lock' = NoThread
            /\ poisoned' = TRUE
       ELSE /\ pc' = [pc EXCEPT ![t] = "log_relock"]
            /\ UNCHANGED <<rec, lock, poisoned>>
    /\ UNCHANGED <<rings, order, result, built, logger, maxLevel, pushed,
                   forwarded, nlogs, nsetups, enabledRet>>

(* ---------------- setup_logger ---------------- *)

\* log::set_boxed_logger: Ok only while no logger is installed.
set_boxed_logger_ok(lg) == ~lg.installed

\* A setup_logger that sets the max level whatever set_boxed_logger said.
sets_max_level_always(ok) == TRUE

\* Whether setup_logger calls log::set_max_level: only when
\* set_boxed_logger returned Ok (line 204).
sets_max_level(ok) == ok

\* setup_logger as one call: lines 201-206.
setup_logger(t, stderrNull, filter) ==
    /\ pc[t] = "idle"
    /\ LET b  == setup_pretty(stderrNull, filter)
           ok == set_boxed_logger_ok(logger)
       IN  /\ logger' = IF ok THEN Logger_new(b.pretty) ELSE logger
           /\ maxLevel' = IF sets_max_level(ok) THEN b.max_level ELSE maxLevel
    /\ UNCHANGED <<rings, order, lock, pc, rec, result, built, pushed,
                   forwarded, nlogs, nsetups,
                   poisoned, enabledRet>>

\* setup_logger called from several threads, step by step.
\* lines 201-202
setup_logger_build(t, stderrNull, filter) ==
    /\ pc[t] = "idle"
    /\ nsetups < MaxSetups
    /\ built' = [built EXCEPT ![t] = setup_pretty(stderrNull, filter)]
    /\ pc' = [pc EXCEPT ![t] = "setup_install"]
    /\ nsetups' = nsetups + 1
    /\ UNCHANGED <<rings, order, lock, rec, result, logger, maxLevel, pushed,
                   forwarded, nlogs,
                   poisoned, enabledRet>>

\* line 204
setup_logger_install(t) ==
    /\ pc[t] = "setup_install"
    /\ LET ok == set_boxed_logger_ok(logger)
       IN  /\ logger' = IF ok THEN Logger_new(built[t].pretty) ELSE logger
           /\ pc' = [pc EXCEPT ![t] = IF sets_max_level(ok)
                                      THEN "setup_max_level" ELSE "idle"]
           /\ built' = [built EXCEPT ![t] = IF sets_max_level(ok)
                                            THEN @ ELSE NoBuilt]
    /\ UNCHANGED <<rings, order, lock, rec, result, maxLevel, pushed,
                   forwarded, nlogs, nsetups,
                   poisoned, enabledRet>>

\* line 205
setup_logger_max_level(t) ==
    /\ pc[t] = "setup_max_level"
    /\ maxLevel' = built[t].max_level
    /\ built' = [built EXCEPT ![t] = NoBuilt]
    /\ pc' = [pc EXCEPT ![t] = "idle"]
    /\ UNCHANGED <<rings, order, lock, rec, result, logger, pushed,
                   forwarded, nlogs, nsetups,
                   poisoned, enabledRet>>

(* ---------------- specifications ---------------- *)

\* Concurrent logging and reading; setup_logger as one call.
Next ==
    \/ \E t \in Threads, level \in Levels, target \in Targets, msg \in Msgs :
           Logger_log_lock(t, level, target, msg)
    \/ \E t \in Threads, now \in Times : Logger_log_store(t, now)
    \/ \E t \in Threads : Logger_log_advance(t)
    \/ \E t \in Threads : Logger_log_pretty(t)
    \/ \E t \in Threads : get_entries_lock(t)
    \/ \E t \in Threads : get_entries_read(t)
    \/ \E t \in Threads : get_entries_sort(t)
    \/ \E t \in Threads, stderrNull \in BOOLEAN, filter \in Filters :
           setup_logger(t, stderrNull, filter)

Spec == Init /\ [][Next]_vars

\* The steps that carry on a call thread t is in.
Proceed(t) ==
    \/ \E now \in Times : Logger_log_store(t, now)
    \/ Logger_log_advance(t)
    \/ Logger_log_pretty(t)
    \/ get_entries_read(t)
    \/ get_entries_sort(t)

\* Concurrent logging and reading where rendering a message may panic or
\* log; every thread that can carry on its call does so eventually.
NextFault ==
    \/ Next
    \/ \E t \in Threads, level \in Levels, target \in Targets, msg \in Msgs :
           Logger_log_lock_poisoned(t, level, target, msg)
    \/ \E t \in Threads : get_entries_lock_poisoned(t)
    \/ \E t \in Threads : Logger_log_render_panics(t)
    \/ \E t \in Threads, relock \in Relock : Logger_log_render_logs(t, relock)

SpecFault ==
    Init /\ [][NextFault]_vars /\ \A t \in Threads : WF_vars(Proceed(t))

\* Targets Logger::enabled is asked about.
EnabledTargets == {"x", "wgpu_core"}

\* Logger::enabled of the installed logger, lines 139-148.
Logger_enabled_call(level, target) ==
    /\ logger.installed
    /\ enabledRet' = [some |-> TRUE, level |-> level, target |-> target,
                      value |-> Logger_enabled(logger, level, target)]
    /\ UNCHANGED <<rings, order, lock, pc, rec, result, built, logger,
                   maxLevel, pushed, forwarded, poisoned, nlogs, nsetups>>

\* Rings::log called directly, one call after the other.
Rings_log_call(level, target, msg, now) ==
    /\ nlogs < MaxPushes
    /\ LET record == [level |-> level, target |-> target, msg |-> msg]
       IN  /\ rings' = Rings_log(rings, record, now)
           /\ pushed' = [pushed EXCEPT ![level] =
                             Append(@, Rings_log_entry(record, now))]
    /\ nlogs' = nlogs + 1
    /\ UNCHANGED <<order, lock, pc, rec, result, built, logger, maxLevel,
                   forwarded, nsetups,
                   poisoned, enabledRet>>

NextRing ==
    \E level \in Levels, target \in Targets, msg \in Msgs, now \in Times :
        Rings_log_call(level, target, msg, now)

SpecRing == Init /\ [][NextRing]_vars

\* setup_logger, then log records and enabled() questions in any order.
NextEnabled ==
    \/ \E t \in Threads, stderrNull \in BOOLEAN, filter \in Filters :
           setup_logger(t, stderrNull, filter)
    \/ \E level \in Levels, target \in Targets, msg \in Msgs, now \in Times :
           nlogs < MaxLogs /\ Rings_log_call(level, target, msg, now)
    \/ \E level \in Levels, target \in EnabledTargets :
           Logger_enabled_call(level, target)

SpecEnabled == Init /\ [][NextEnabled]_vars

\* Concurrent setup_logger calls, step by step.
NextSetup ==
    \/ \E t \in Threads, stderrNull \in BOOLEAN, filter \in Filters :
           setup_logger_build(t, stderrNull, filter)
    \/ \E t \in Threads : setup_logger_install(t)
    \/ \E t \in Threads : setup_logger_max_level(t)

SpecSetup == Init /\ [][NextSetup]_vars

(* ------------------------------------------------------------------ *)
(* Properties                                                          *)
(* ------------------------------------------------------------------ *)

\* What append_to_vec yields for the ring of level l.
Drain(l) == append_to_vec(rings[l], <<>>)

\* The last n elements of s (all of s when it has fewer).
LastN(s, n) == IF Len(s) <= n THEN s ELSE SubSeq(s, Len(s) - n + 1, Len(s))

Min(a, b) == IF a <= b THEN a ELSE b

\* C1: after k > C pushes to a ring, append_to_vec yields exactly the last C
\* entries pushed, oldest first.
C1_LastCapRetained ==
    \A l \in Levels :
        Len(pushed[l]) > Cap => Drain(l) = LastN(pushed[l], Cap)

\* C2: after k <= C pushes to a ring (k = C included), append_to_vec yields
\* exactly those k entries in insertion order.
C2_AllRetainedUpToCap ==
    \A l \in Levels :
        Len(pushed[l]) <= Cap => Drain(l) = pushed[l]

\* C3: immediately after push(e) the ring's drained output ends with e, and
\* the entries before e are the previous output or the previous output
\* without its oldest entry.
C3_NewestKeptOldestDropped ==
    [][\A l \in Levels :
          pushed'[l] # pushed[l] =>
            LET before == Drain(l)
                after  == append_to_vec(rings'[l], <<>>)
            IN  /\ after # <<>>
                /\ after[Len(after)] = pushed'[l][Len(pushed'[l])]
                /\ \/ SubSeq(after, 1, Len(after) - 1) = before
                   \/ /\ before # <<>>
                      /\ SubSeq(after, 1, Len(after) - 1) = Tail(before)]_vars

\* C7: every ring holds at most C entries: len() <= C and the drained
\* sequence has at most C entries, whatever the number of pushes.
C7_CapacityBound ==
    \A l \in Levels :
        /\ LevelRing_len(rings[l]) <= Cap
        /\ Len(Drain(l)) <= Cap

\* C7 witness: a ring has received more pushes than its capacity.
C7_Witness ==
    \E l \in Levels :
        /\ Len(pushed[l]) > Cap
        /\ LevelRing_len(rings[l]) >= 1

\* The entries of a sequence as a bag.
BagOfSeq(s) ==
    LET range == {s[i] : i \in DOMAIN s}
    IN  [e \in range |-> Cardinality({i \in DOMAIN s : s[i] = e})]

RECURSIVE Concat(_, _)
\* The concatenation of f[l] over the levels of sequence ls.
Concat(f, ls) == IF ls = <<>> THEN <<>> ELSE f[Head(ls)] \o Concat(f, Tail(ls))

RECURSIVE SumMin(_, _)
\* The sum over the levels of ls of min(pushes to the level, C).
SumMin(f, ls) ==
    IF ls = <<>> THEN 0 ELSE Min(Len(f[Head(ls)]), Cap) + SumMin(f, Tail(ls))

\* A log call of some thread other than t is in progress.
LogInFlight(t) ==
    \E u \in Threads \ {t} : pc[u] \in {"log_store", "log_advance", "log_pretty"}

\* Thread t takes the step of get_entries that reads the rings.
ReadStep(t) == pc[t] = "get_read" /\ pc'[t] = "get_sort"

\* C4: a snapshot taken after all log calls completed has
\* sum over levels of min(pushes to the level, C) entries, each of them the
\* entry of a distinct log call.
C4_SnapshotCount ==
    [][\A t \in Threads :
          (ReadStep(t) /\ ~LogInFlight(t)) =>
            LET snapshot == get_entries_sorted(result'[t])
            IN  /\ Len(snapshot) = SumMin(pushed, order)
                /\ BagOfSeq(snapshot) \sqsubseteq BagOfSeq(Concat(pushed, order))]_vars

RECURSIVE Replay(_, _)
\* The ring that complete pushes of the entries es make of ring r.
Replay(r, es) ==
    IF es = <<>> THEN r ELSE Replay(LevelRing_push(r, Head(es)), Tail(es))

\* The threads inside Rings::log or Rings::get_entries.
InRings == {t \in Threads : pc[t] \in {"log_store", "log_advance", "get_read"}}

\* C5: at most one thread is inside a ring mutation or a ring read, it holds
\* the mutex, and what a reader sees is the rings as complete pushes left them.
C5_MutualExclusion ==
    /\ Cardinality(InRings) <= 1
    /\ \A t \in InRings : lock = t
    /\ \A t \in Threads :
          pc[t] = "get_read" =>
            \A l \in Levels : rings[l] = Replay(LevelRing_new(l, 0), pushed[l])

\* C5 witness: a reader is inside Rings::get_entries, after pushes, while
\* another thread is in the middle of a log call.
C5_Witness ==
    \E t \in Threads, u \in Threads :
        /\ pc[t] = "get_read"
        /\ pc[u] = "log_pretty"
        /\ \E l \in Levels : pushed[l] # <<>>

\* C6: the sequence get_entries returns is non-decreasing in timestamp.
C6_SortedByTime ==
    \A t \in Threads :
        pc[t] = "idle" =>
          \A i \in 1..(Len(result[t]) - 1) :
              result[t][i].then <= result[t][i + 1].then

\* C6 witness: get_entries returned two entries that the visit of the rings
\* met in the other order.
C6_Witness ==
    \E t \in Threads :
        /\ pc[t] = "idle"
        /\ Len(result[t]) = 2
        /\ result[t][1].then < result[t][2].then
        /\ result[t][1].level > result[t][2].level
        /\ order = <<Error, Warn, Info, Debug, Trace>>

\* Exactly one Error record and one Trace record have been logged, and the
\* installed logger has no pretty logger.
ErrorAndTraceLogged ==
    /\ logger.installed
    /\ ~logger.pretty.some
    /\ \A l \in Levels :
          Len(pushed[l]) = IF l \in {Error, Trace} THEN 1 ELSE 0

\* C8: with no pretty logger, after one Error and one Trace record were
\* logged (enabled is true for the first and false for the second), a
\* get_entries that reads the rings returns both records.
C8_RecordedWhateverEnabled ==
    [][\A t \in Threads :
          (ReadStep(t) /\ ~LogInFlight(t) /\ ErrorAndTraceLogged) =>
            LET snapshot == get_entries_sorted(result'[t])
            IN  /\ Logger_enabled(logger, Error, pushed[Error][1].target)
                /\ ~Logger_enabled(logger, Trace, pushed[Trace][1].target)
                /\ \E i \in DOMAIN snapshot : snapshot[i] = pushed[Error][1]
                /\ \E i \in DOMAIN snapshot : snapshot[i] = pushed[Trace][1]]_vars

\* C8 witness: get_entries has returned an Error and a Trace record under a
\* logger without pretty logger.
C8_Witness ==
    \E t \in Threads :
        /\ pc[t] = "idle"
        /\ ErrorAndTraceLogged
        /\ Len(result[t]) = 2
        /\ {result[t][1].level, result[t][2].level} = {Error, Trace}
        /\ \A i \in 1..2 : result[t][i].target # ""

\* The max level the call that built logger lg asks for.
MaxLevelOf(lg) == IF lg.pretty.some THEN lg.pretty.filter ELSE Info

\* C9: the installed logger is set at most once and never replaced or
\* removed; the max level is set at most once, by the call that installed the
\* logger, and no other call changes either.
C9_InstalledOnce ==
    [][/\ logger' # logger => (~logger.installed /\ logger'.installed)
       /\ maxLevel' # maxLevel =>
            /\ maxLevel = Off
            /\ logger.installed
            /\ logger' = logger
            /\ maxLevel' = MaxLevelOf(logger)]_vars

\* C9 witness: a logger is installed and its max level set while a later
\* setup_logger call that built another configuration has been turned down.
C9_Witness ==
    /\ logger.installed
    /\ maxLevel = MaxLevelOf(logger)
    /\ nsetups >= 2
    /\ \A t \in Threads : pc[t] = "idle"

\* C10: a log call with a record of level L changes the ring of L only:
\* the slots, first and last of the other four rings stay as they are.
C10_Routing ==
    [][\A t \in Threads :
          (pc[t] \in {"log_store", "log_advance"} /\ pc'[t] # pc[t]) =>
            /\ \A l \in Levels \ {rec[t].level} : rings'[l] = rings[l]
            /\ pc[t] = "log_advance" =>
                  rings'[rec[t].level].last # rings[rec[t].level].last]_vars

\* C10 witness: a Trace record and nothing else has been logged, the Trace
\* ring holds it and the other four rings are as constructed.
C10_Witness ==
    /\ Len(pushed[Trace]) = 1
    /\ Drain(Trace) = pushed[Trace]
    /\ \A l \in Levels \ {Trace} : rings[l] = LevelRing_new(l, 0)
    /\ \A t \in Threads : pc[t] = "idle"

\* C11: reading does not change a ring (slots, first, last), and a second
\* read with no push in between returns the same sequence as the first, both
\* for the Vec Rings::get_entries builds and for the sorted Vec get_entries
\* returns.
C11_ReadIdempotent ==
    [][\A t \in Threads :
          ReadStep(t) =>
            /\ rings' = rings
            /\ \A l \in Levels :
                  append_to_vec(rings'[l], <<>>) = append_to_vec(rings[l], <<>>)
            /\ Rings_get_entries(rings', order') = result'[t]
            /\ get_entries_sorted(Rings_get_entries(rings', order'))
                  = get_entries_sorted(result'[t])]_vars

\* C11 witness: a read has returned a non-empty Vec and the rings still yield
\* that Vec.
C11_Witness ==
    \E t \in Threads :
        /\ pc[t] = "get_sort"
        /\ result[t] # <<>>
        /\ Rings_get_entries(rings, order) = result[t]


\* Program positions at which the thread holds the guard of RINGS.
UnderLock == {"log_store", "log_advance", "get_read", "log_relock"}

\* Thread t is inside a call that has neither returned nor unwound.
InCall(t) == pc[t] \notin {"idle", "panicked"}

C13_NoBlocking ==
    \A t \in Threads : InCall(t) => ENABLED Proceed(t)


\* C14: Logger::enabled returns the sink's decision when a sink is set, and
\* otherwise TRUE for Error, Warn, Info and FALSE for Debug, Trace, for every
\* target; the call leaves the rings as they were.
C14_EnabledDelegates ==
    [][enabledRet' # enabledRet =>
          /\ rings' = rings
          /\ enabledRet'.some
          /\ LET level  == enabledRet'.level
                 target == enabledRet'.target
             IN  enabledRet'.value =
                    IF logger.pretty.some
                    THEN pretty_enabled(logger.pretty, level, target)
                    ELSE level \in {Error, Warn, Info}]_vars

C14_Witness ==
    /\ enabledRet.some
    /\ logger.pretty.some
    /\ logger.pretty.filter = Trace
    /\ enabledRet.level = Debug
    /\ enabledRet.target = "x"
    /\ enabledRet.value
    /\ \E l \in Levels : pushed[l] # <<>>


\* C15: a ring that has received one or more pushes is not observably empty:
\* first # last, len() > 0 and the drained sequence is non-empty.
C15_EmptyOnlyAtConstruction ==
    \A l \in Levels :
        pushed[l] # <<>> =>
            /\ rings[l].first # rings[l].last
            /\ LevelRing_len(rings[l]) > 0
            /\ Drain(l) # <<>>

\* C16: a push onto a ring that has received at least C pushes writes the
\* entry at index first and advances first and last by one modulo C; a push
\* onto a ring that has received fewer writes at index last and advances
\* only last.
C16_PushBranches ==
    [][\A l \in Levels :
          pushed'[l] # pushed[l] =>
            LET r     == rings[l]
                after == rings'[l]
                entry == pushed'[l][Len(pushed'[l])]
            IN  IF Len(pushed[l]) >= Cap
                THEN /\ after.entries[r.first + 1] = entry
                     /\ after.first = (r.first + 1) % Cap
                     /\ after.last = (r.last + 1) % Cap
                ELSE /\ after.entries[r.last + 1] = entry
                     /\ after.first = r.first
                     /\ after.last = (r.last + 1) % Cap]_vars

\* C17: in every ring first and last are in [0, C), so the slots push and
\* append_to_vec touch exist; len() = (last - first) mod C; append_to_vec
\* yields len() entries.
C17_IndexInvariant ==
    \A l \in Levels :
        LET r == rings[l]
        IN  /\ Len(r.entries) = Cap
            /\ r.first \in 0 .. Cap - 1
            /\ r.last \in 0 .. Cap - 1
            /\ LevelRing_len(r) = (r.last - r.first) % Cap
            /\ Len(append_to_vec(r, <<>>)) = LevelRing_len(r)

\* C17 witness: last has wrapped and advanced again.
C17_Witness ==
    \E l \in Levels :
        /\ Len(pushed[l]) > Cap
        /\ rings[l].last = 1

InPretty == {t \in Threads : pc[t] = "log_pretty"}

\* The number of records Rings::log has stored.
TotalPushed == Len(Concat(pushed, order))

\* C18: a thread inside the sink's log has stored its record in the rings
\* before and does not hold the ring lock; with a sink configured every log
\* call that has left Rings::log is forwarded exactly once (whatever
\* enabled() says); with none configured nothing is forwarded.
C18_StoreThenForward ==
    /\ \A t \in InPretty :
          /\ lock # t
          /\ logger.pretty.some
          /\ \E i \in DOMAIN pushed[rec[t].level] :
                LET e == pushed[rec[t].level][i]
                IN  e.target = rec[t].target /\ e.msg = rec[t].msg
    /\ IF logger.pretty.some
       THEN forwarded + Cardinality(InPretty)
               = TotalPushed
                 - Cardinality({t \in Threads : pc[t] = "log_advance"})
       ELSE forwarded = 0 /\ InPretty = {}

\* C18 witness: a Trace record was stored and forwarded although the sink's
\* filter is Info, while another thread holds the ring lock.
C18_Witness ==
    /\ logger.pretty.some
    /\ logger.pretty.filter = Info
    /\ forwarded = 1
    /\ TotalPushed = 1
    /\ pushed[Trace] # <<>>
    /\ lock # NoThread

\* How many times e occurs in the sequence s.
Count(s, e) == Cardinality({i \in DOMAIN s : s[i] = e})

\* Every entry of s occurs in u at least as many times as in s.
Within(s, u) == \A i \in DOMAIN s : Count(s, s[i]) <= Count(u, s[i])

\* C20: what the rings yield, and what get_entries returned, are entries of
\* distinct earlier log calls, each drained from the ring of its own level;
\* no placeholder slot of LevelRing::new is among them; the Vec a reader is
\* about to build is the concatenation of the per-ring drains, and sorting
\* the Vec a reader holds gives a permutation of it.
C20_OnlyLoggedEntries ==
    /\ \A l \in Levels :
          LET drain == Drain(l)
          IN  /\ Within(drain, pushed[l])
              /\ \A i \in DOMAIN drain :
                    drain[i].level = l /\ drain[i].target # ""
    /\ \A t \in Threads :
          /\ result[t] # <<>> =>
                /\ Within(result[t], Concat(pushed, order))
                /\ \A i \in DOMAIN result[t] : result[t][i].target # ""
          /\ pc[t] = "get_read" =>
                Rings_get_entries(rings, order)
                   = Concat([l \in Levels |-> Drain(l)], order)
          /\ pc[t] = "get_sort" =>
                LET sorted == get_entries_sorted(result[t])
                IN  /\ Len(sorted) = Len(result[t])
                    /\ Within(sorted, result[t])

\* C20 witness: get_entries returned the entries of two log calls at two
\* levels, and the rings still yield them.
C20_Witness ==
    \E t \in Threads :
        /\ pc[t] = "idle"
        /\ Len(result[t]) = 2
        /\ result[t][1].level # result[t][2].level
        /\ BagOfSeq(result[t]) = BagOfSeq(Rings_get_entries(rings, order))

====
